---------------------------- MODULE Spec2Model ----------------------------
(***************************************************************************)
(* A model of health-notify: the LazyFailInit<T> container                 *)
(* (src/src/lazy_fail_init.rs), the SystemdNotify channel that wraps it    *)
(* (src/src/sd_notify.rs) and the supervisor's startup and steady-state    *)
(* loops (src/src/main.rs).                                                *)
(*                                                                         *)
(* Two specifications share the variables:                                 *)
(*   LazySpec  NumThreads threads make get_or_create and get calls on one  *)
(*             container, one source statement per step;                   *)
(*   Spec      the supervisor's single thread (MainThread) runs main(),    *)
(*             its notify call stepping through the same get_or_create     *)
(*             actions.                                                    *)
(* Atomic loads and stores are modelled sequentially consistent: the       *)
(* Acquire load of line 50/71 pairs with the Release store of line 57.     *)
(***************************************************************************)
EXTENDS Integers, Sequences, FiniteSets, TLC

\* ------------------------------------------------------------- bounds
\* Concurrent callers of the container in LazySpec.
NumThreads == 2
\* Calls each of those callers makes.
MaxCalls == 2

MainThread == 0
Threads == 1..NumThreads
AllThreads == {MainThread} \cup Threads
NoThread == -1

VARIABLES
    \* LazyFailInit fields
    initialized,   \* AtomicBool
    lock,          \* Mutex<()>: the thread holding it, or NoThread
    value,         \* UnsafeCell<Option<T>>: <<>> is None, <<v>> is Some(v)
    \* per caller
    lpc,           \* the statement the caller is at
    fres,          \* what the caller's creation function f returns: "ok" / "err"
    calls,         \* number of calls the caller has started
    ret,           \* the result of the caller's last finished call
    invoked,       \* how many times the current call has invoked its f
    inflight,      \* get(): the creation that was running when the call started
    \* history
    nCreate,       \* creation functions invoked so far
    nFailed        \* creation functions that returned Err so far

lazyVars == <<initialized, lock, value, lpc, fres, calls, ret, invoked,
              inflight, nCreate, nFailed>>

VARIABLES
    \* the supervisor (main.rs)
    pc,            \* where main() is
    sleep_time,    \* what is left of the delay before the next probe, in ticks
    child,         \* the supervised child process
    check_child,   \* the probe process of the current attempt
    unreaped,      \* pids of the probes spawned and not yet waited on (history)
    nspawn,        \* probe spawn attempts so far
    cycles,        \* failed attempts that went back to the sleep (history)
    sigq,          \* signal events delivered and not yet taken by main()
    exit_code,     \* the code handed to process::exit
    notifyEnabled, \* main's `notify` is Some: NOTIFY_SOCKET was set
    child_notify,  \* options.child_notify: --child-notify was given
    environ,       \* NOTIFY_SOCKET in the supervisor's own environment
    notifyCalls,   \* calls of notify.notify("READY=1")
    sent,          \* datagrams sent on the notification socket
    \* history
    delivered,     \* kinds of the signals sent to the supervisor from outside
    forwarded,     \* kinds of the signals the supervisor sent to the child
    kills,         \* <<pid, signal>> of every kill() the supervisor made
    waited,        \* what child.wait() returned
    nwait,         \* calls of child.wait()
    exitPhase,     \* the phase in which the child's exit was handled
    bothSeen       \* a Racing batch held the child's exit and a probe success

supVars == <<pc, sleep_time, child, check_child, unreaped, nspawn, cycles, sigq,
             exit_code, notifyEnabled, child_notify, environ, notifyCalls, sent,
             delivered, forwarded, kills, waited, nwait, exitPhase, bothSeen>>

vars == <<lazyVars, supVars>>

\* ------------------------------------------------------------- values
\* What the k-th call of thread t produces when its f runs: Ok(Produced) or
\* Err(Produced); distinct calls produce distinct values.
Produced(t, k) == <<t, k>>
NoCreation == <<NoThread, 0>>
NoRet == [tag |-> "-", val |-> <<>>]
Result(tag, val) == [tag |-> tag, val |-> val]

\* The creation (caller, call number) that is between invoking f (line 54)
\* and publishing the flag (line 57), if any.
Creating(t) == lpc[t] \in {"goc_f", "goc_write", "goc_store"}
InFlightCreation ==
    IF \E t \in AllThreads : Creating(t)
    THEN LET t == CHOOSE u \in AllThreads : Creating(u) IN <<t, calls[t]>>
    ELSE NoCreation

\* unsafe fn extract(&self) -> Option<&T>
extract == value

\* ------------------------------------------------------------- LazyFailInit
LazyInit ==
    /\ initialized = FALSE
    /\ lock = NoThread
    /\ value = <<>>
    /\ lpc = [t \in AllThreads |-> "idle"]
    /\ fres = [t \in AllThreads |-> "-"]
    /\ calls = [t \in AllThreads |-> 0]
    /\ ret = [t \in AllThreads |-> NoRet]
    /\ invoked = [t \in AllThreads |-> 0]
    /\ inflight = [t \in AllThreads |-> NoCreation]
    /\ nCreate = 0
    /\ nFailed = 0

\* A caller enters get_or_create(f); r is what f returns when it is run.
CallGetOrCreate(t, r) ==
    /\ lpc[t] = "idle"
    /\ lpc' = [lpc EXCEPT ![t] = "goc_load"]
    /\ fres' = [fres EXCEPT ![t] = r]
    /\ calls' = [calls EXCEPT ![t] = @ + 1]
    /\ ret' = [ret EXCEPT ![t] = NoRet]
    /\ invoked' = [invoked EXCEPT ![t] = 0]
    /\ inflight' = [inflight EXCEPT ![t] = NoCreation]
    /\ UNCHANGED <<initialized, lock, value, nCreate, nFailed>>

\* line 50: if !self.initialized.load(Ordering::Acquire)
GocLoad(t) ==
    /\ lpc[t] = "goc_load"
    /\ lpc' = [lpc EXCEPT ![t] = IF initialized THEN "goc_extract" ELSE "goc_lock"]
    /\ UNCHANGED <<initialized, lock, value, fres, calls, ret, invoked,
                   inflight, nCreate, nFailed>>

\* Mutant of GocLock: the mutex does not exclude a second holder.
GocLock_NoExclusion(t) ==
    /\ lpc[t] = "goc_lock"
    /\ lock' = t
    /\ lpc' = [lpc EXCEPT ![t] = "goc_recheck"]
    /\ UNCHANGED <<initialized, value, fres, calls, ret, invoked,
                   inflight, nCreate, nFailed>>

\* line 51: let _lock = self.lock.lock().unwrap();
GocLock(t) ==
    /\ lpc[t] = "goc_lock"
    /\ lock = NoThread
    /\ lock' = t
    /\ lpc' = [lpc EXCEPT ![t] = "goc_recheck"]
    /\ UNCHANGED <<initialized, value, fres, calls, ret, invoked,
                   inflight, nCreate, nFailed>>

\* Mutant of GocRecheck: no second look at the flag under the lock.
GocRecheck_NoRecheck(t) ==
    /\ lpc[t] = "goc_recheck"
    /\ lpc' = [lpc EXCEPT ![t] = "goc_f"]
    /\ invoked' = [invoked EXCEPT ![t] = @ + 1]
    /\ nCreate' = nCreate + 1
    /\ UNCHANGED <<initialized, lock, value, fres, calls, ret, inflight, nFailed>>

\* lines 52-54: if !self.initialized.load(Ordering::Relaxed) { ... f() ...
\* An initialized container skips to the end of the block (line 62);
\* otherwise f is invoked.
GocRecheck(t) ==
    /\ lpc[t] = "goc_recheck"
    /\ IF initialized
       THEN /\ lpc' = [lpc EXCEPT ![t] = "goc_unlock"]
            /\ UNCHANGED <<invoked, nCreate>>
       ELSE /\ lpc' = [lpc EXCEPT ![t] = "goc_f"]
            /\ invoked' = [invoked EXCEPT ![t] = @ + 1]
            /\ nCreate' = nCreate + 1
    /\ UNCHANGED <<initialized, lock, value, fres, calls, ret, inflight, nFailed>>

\* The guard dropped on every way out of the block that took it.
Release(t) == IF lock = t THEN NoThread ELSE lock

\* Mutant of GocCreateReturn: the failure path returns with the lock held.
GocCreateReturn_KeepLock(t) ==
    /\ lpc[t] = "goc_f"
    /\ IF fres[t] = "ok"
       THEN /\ lpc' = [lpc EXCEPT ![t] = "goc_write"]
            /\ UNCHANGED <<lock, ret, nFailed>>
       ELSE /\ lpc' = [lpc EXCEPT ![t] = "idle"]
            /\ ret' = [ret EXCEPT ![t] = Result("Err", <<Produced(t, calls[t])>>)]
            /\ nFailed' = nFailed + 1
            /\ UNCHANGED lock
    /\ UNCHANGED <<initialized, value, fres, calls, invoked, inflight, nCreate>>

\* Mutant of GocCreateReturn: a failure marks the container initialized.
GocCreateReturn_CacheFailure(t) ==
    /\ lpc[t] = "goc_f"
    /\ IF fres[t] = "ok"
       THEN /\ lpc' = [lpc EXCEPT ![t] = "goc_write"]
            /\ UNCHANGED <<initialized, lock, ret, nFailed>>
       ELSE /\ lpc' = [lpc EXCEPT ![t] = "idle"]
            /\ initialized' = TRUE
            /\ lock' = IF lock = t THEN NoThread ELSE lock
            /\ ret' = [ret EXCEPT ![t] = Result("Err", <<Produced(t, calls[t])>>)]
            /\ nFailed' = nFailed + 1
    /\ UNCHANGED <<value, fres, calls, invoked, inflight, nCreate>>

\* lines 54-60: f() returns. Err(err) => return Err(err), dropping the
\* guard; Ok(x) goes on to line 56.
GocCreateReturn(t) ==
    /\ lpc[t] = "goc_f"
    /\ IF fres[t] = "ok"
       THEN /\ lpc' = [lpc EXCEPT ![t] = "goc_write"]
            /\ UNCHANGED <<lock, ret, nFailed>>
       ELSE /\ lpc' = [lpc EXCEPT ![t] = "idle"]
            /\ lock' = Release(t)
            /\ ret' = [ret EXCEPT ![t] = Result("Err", <<Produced(t, calls[t])>>)]
            /\ nFailed' = nFailed + 1
    /\ UNCHANGED <<initialized, value, fres, calls, invoked, inflight, nCreate>>

\* Mutant of GocWrite: the value cell is left as it is.
GocWrite_NoValue(t) ==
    /\ lpc[t] = "goc_write"
    /\ lpc' = [lpc EXCEPT ![t] = "goc_store"]
    /\ UNCHANGED <<initialized, lock, value, fres, calls, ret, invoked,
                   inflight, nCreate, nFailed>>

\* line 56: *value = Some(x);
GocWrite(t) ==
    /\ lpc[t] = "goc_write"
    /\ value' = <<Produced(t, calls[t])>>
    /\ lpc' = [lpc EXCEPT ![t] = "goc_store"]
    /\ UNCHANGED <<initialized, lock, fres, calls, ret, invoked, inflight,
                   nCreate, nFailed>>

\* Mutant of GocStore: the flag is never published.
GocStore_NoPublish(t) ==
    /\ lpc[t] = "goc_store"
    /\ lpc' = [lpc EXCEPT ![t] = "goc_unlock"]
    /\ UNCHANGED <<initialized, lock, value, fres, calls, ret, invoked,
                   inflight, nCreate, nFailed>>

\* line 57: self.initialized.store(true, Ordering::Release);
GocStore(t) ==
    /\ lpc[t] = "goc_store"
    /\ initialized' = TRUE
    /\ lpc' = [lpc EXCEPT ![t] = "goc_unlock"]
    /\ UNCHANGED <<lock, value, fres, calls, ret, invoked, inflight,
                   nCreate, nFailed>>

\* line 62: the block that holds _lock ends.
GocUnlock(t) ==
    /\ lpc[t] = "goc_unlock"
    /\ lock' = Release(t)
    /\ lpc' = [lpc EXCEPT ![t] = "goc_extract"]
    /\ UNCHANGED <<initialized, value, fres, calls, ret, invoked, inflight,
                   nCreate, nFailed>>

\* line 64: Ok(unsafe { self.extract() }.unwrap())
\* unwrap() of None panics: the call returns nothing ("panic").
GocExtract(t) ==
    /\ lpc[t] = "goc_extract"
    /\ ret' = [ret EXCEPT ![t] = IF extract = <<>> THEN Result("panic", <<>>)
                                 ELSE Result("Ok", extract)]
    /\ lpc' = [lpc EXCEPT ![t] = "idle"]
    /\ UNCHANGED <<initialized, lock, value, fres, calls, invoked, inflight,
                   nCreate, nFailed>>

\* A caller enters get().
CallGet(t) ==
    /\ lpc[t] = "idle"
    /\ lpc' = [lpc EXCEPT ![t] = "get_load"]
    /\ fres' = [fres EXCEPT ![t] = "-"]
    /\ calls' = [calls EXCEPT ![t] = @ + 1]
    /\ ret' = [ret EXCEPT ![t] = NoRet]
    /\ invoked' = [invoked EXCEPT ![t] = 0]
    /\ inflight' = [inflight EXCEPT ![t] = InFlightCreation]
    /\ UNCHANGED <<initialized, lock, value, nCreate, nFailed>>

\* line 71: if self.initialized.load(Ordering::Acquire)
GetLoad(t) ==
    /\ lpc[t] = "get_load"
    /\ lpc' = [lpc EXCEPT ![t] = IF initialized THEN "get_fast" ELSE "get_lock"]
    /\ UNCHANGED <<initialized, lock, value, fres, calls, ret, invoked,
                   inflight, nCreate, nFailed>>

\* line 72: unsafe { self.extract() }
GetFast(t) ==
    /\ lpc[t] = "get_fast"
    /\ ret' = [ret EXCEPT ![t] = IF extract = <<>> THEN Result("None", <<>>)
                                 ELSE Result("Some", extract)]
    /\ lpc' = [lpc EXCEPT ![t] = "idle"]
    /\ UNCHANGED <<initialized, lock, value, fres, calls, invoked, inflight,
                   nCreate, nFailed>>

\* Mutant of GetLock: get() reads without waiting for the lock.
GetLock_NoWait(t) ==
    /\ lpc[t] = "get_lock"
    /\ lpc' = [lpc EXCEPT ![t] = "get_slow"]
    /\ UNCHANGED <<initialized, lock, value, fres, calls, ret, invoked,
                   inflight, nCreate, nFailed>>

\* line 74: let _lock = self.lock.lock().unwrap();
GetLock(t) ==
    /\ lpc[t] = "get_lock"
    /\ lock = NoThread
    /\ lock' = t
    /\ lpc' = [lpc EXCEPT ![t] = "get_slow"]
    /\ UNCHANGED <<initialized, value, fres, calls, ret, invoked, inflight,
                   nCreate, nFailed>>

\* lines 75-76: unsafe { self.extract() }, then the guard is dropped.
GetSlow(t) ==
    /\ lpc[t] = "get_slow"
    /\ ret' = [ret EXCEPT ![t] = IF extract = <<>> THEN Result("None", <<>>)
                                 ELSE Result("Some", extract)]
    /\ lock' = Release(t)
    /\ lpc' = [lpc EXCEPT ![t] = "idle"]
    /\ UNCHANGED <<initialized, value, fres, calls, invoked, inflight,
                   nCreate, nFailed>>

\* ------------------------------------------------------------- supervisor
\* The one-second delay of line 152, counted in ticks.
SleepTicks == 2
\* Probe spawn attempts in a run.
MaxAttempts == 2
\* Signals sent to the supervisor from outside in a run.
MaxSignals == 2

SIGCHLD == "SIGCHLD"
SIGTERM == "SIGTERM"
\* line 123: the kinds the supervisor listens to besides SIGCHLD.
RelayKinds == {"SIGINT", SIGTERM, "SIGUSR1", "SIGUSR2", "SIGHUP"}

NoPid == 0
ChildPid == 1
ProbePid(n) == ChildPid + n

\* An exit status: an exit code, or Signaled (status.code() is None).
ExitCodes == {0, 3}
Signaled == -1
\* child.wait() returned Err.
WaitErr == -2
\* Not exited / no value yet.
NoExit == -3
ExitStatuses == ExitCodes \cup {Signaled}

Event(sig, pid) == [sig |-> sig, pid |-> pid]

\* The values of NOTIFY_SOCKET in an environment: not there, empty, a path.
Unset == "unset"
EnvValues == {Unset, "", "/run/systemd/notify"}

\* env::remove_var(ENV_VAR) and Command::env_remove(ENV_VAR).
remove_var(env) == Unset

\* sd_notify.rs lines 33-44: Some iff the variable holds a non-empty value;
\* line 35 removes the variable from the environment.
from_env(env) ==
    [notify |-> (env # Unset /\ env # ""), env |-> remove_var(env)]

\* sd_notify.rs lines 46-50.
take_from_env(env) ==
    LET sd_notify == from_env(env)
    IN  [notify |-> sd_notify.notify, env |-> remove_var(sd_notify.env)]

NoChild == [state |-> "none", status |-> NoExit, env |-> Unset]
NoProbe == [pid |-> NoPid, state |-> "none", success |-> FALSE, term |-> FALSE,
            env |-> Unset]

\* main() at line 124: options parsed, signal handlers installed.
SupInit(flag, env) ==
    /\ pc = "start"
    /\ sleep_time = SleepTicks
    /\ child = NoChild
    /\ child_notify = flag
    /\ environ = env
    /\ check_child = NoProbe
    /\ unreaped = {}
    /\ nspawn = 0
    /\ cycles = 0
    /\ sigq = <<>>
    /\ exit_code = NoExit
    /\ notifyEnabled = FALSE
    /\ notifyCalls = 0
    /\ sent = 0
    /\ delivered = <<>>
    /\ forwarded = <<>>
    /\ kills = {}
    /\ waited = NoExit
    /\ nwait = 0
    /\ exitPhase = "none"
    /\ bothSeen = FALSE

\* Mutant of ExitCodeOf: unwrap_or(0).
ExitCodeOf_DefaultZero(w) == IF w \in ExitCodes THEN w ELSE 0

\* .ok().and_then(|status| status.code()).unwrap_or(1)
ExitCodeOf(w) == IF w \in ExitCodes THEN w ELSE 1

\* What child.wait() can return for a child that exited with `status`.
WaitOutcomes(status) == {status, WaitErr}

\* The queue holds the child's exit event and the exit event of a probe
\* that exited with success.
BothIn(q, probe) ==
    /\ probe.state = "zombie"
    /\ probe.success
    /\ \E i \in 1..Len(q) : q[i] = Event(SIGCHLD, ChildPid)
    /\ \E i \in 1..Len(q) : q[i] = Event(SIGCHLD, probe.pid)

\* The signal handler records an event; a signal that arrives during
\* shuteye::sleep interrupts it (line 166: Some(remaining)).
Arrive(ev, probe) ==
    /\ sigq' = Append(sigq, ev)
    /\ pc' = IF pc = "sleep" THEN "pending" ELSE pc
    /\ bothSeen' = (bothSeen \/ (pc = "racing" /\ BothIn(Append(sigq, ev), probe)))

\* One more on a history counter, which stops at MaxAttempts.
Counted(n) == IF n < MaxAttempts THEN n + 1 ELSE n

\* --- main(): startup
\* main.rs lines 124-128.
TakeNotify ==
    /\ pc = "start"
    /\ LET r == IF child_notify THEN from_env(environ)
                                ELSE take_from_env(environ)
       IN  /\ notifyEnabled' = r.notify
           /\ environ' = r.env
    /\ pc' = "spawn_child"
    /\ UNCHANGED <<sleep_time, child, check_child, unreaped, nspawn, cycles,
                   sigq, exit_code, child_notify, notifyCalls, sent, delivered,
                   forwarded, kills, waited, nwait, exitPhase, bothSeen>>
    /\ UNCHANGED lazyVars

\* main.rs lines 130-132: the child inherits the supervisor's environment.
SpawnChild ==
    /\ pc = "spawn_child"
    /\ child' = [state |-> "running", status |-> NoExit, env |-> environ]
    /\ pc' = "sleep"
    /\ UNCHANGED <<sleep_time, check_child, unreaped, nspawn, cycles, sigq,
                   exit_code, notifyEnabled, child_notify, environ, notifyCalls,
                   sent, delivered, forwarded, kills, waited, nwait, exitPhase,
                   bothSeen>>
    /\ UNCHANGED lazyVars

\* --- the environment
ChildExit(st) ==
    /\ pc # "exited"
    /\ child.state = "running"
    /\ child' = [child EXCEPT !.state = "zombie", !.status = st]
    /\ Arrive(Event(SIGCHLD, ChildPid), check_child)
    /\ UNCHANGED <<sleep_time, check_child, unreaped, nspawn, cycles, exit_code,
                   notifyEnabled, child_notify, environ, notifyCalls, sent,
                   delivered, forwarded, kills, waited, nwait, exitPhase>>
    /\ UNCHANGED lazyVars

ProbeExit(ok) ==
    /\ pc # "exited"
    /\ check_child.state = "running"
    /\ check_child' = [check_child EXCEPT !.state = "zombie", !.success = ok]
    /\ UNCHANGED unreaped
    /\ Arrive(Event(SIGCHLD, check_child.pid), check_child')
    /\ UNCHANGED <<sleep_time, child, nspawn, cycles, exit_code, notifyEnabled,
                   child_notify, environ, notifyCalls, sent, delivered,
                   forwarded, kills, waited, nwait, exitPhase>>
    /\ UNCHANGED lazyVars

\* A signal of a relayed kind, or a SIGCHLD that names no process, sent to
\* the supervisor.
Signal(kind) ==
    /\ pc # "exited"
    /\ Len(delivered) < MaxSignals
    /\ delivered' = Append(delivered, kind)
    /\ Arrive(Event(kind, NoPid), check_child)
    /\ UNCHANGED <<sleep_time, child, check_child, unreaped, nspawn, cycles,
                   exit_code, notifyEnabled, child_notify, environ, notifyCalls,
                   sent, forwarded, kills, waited, nwait, exitPhase>>
    /\ UNCHANGED lazyVars

\* Time passes in shuteye::sleep(sleep_time), line 154.
Tick ==
    /\ pc = "sleep"
    /\ sleep_time > 0
    /\ sleep_time' = sleep_time - 1
    /\ UNCHANGED <<pc, child, check_child, unreaped, nspawn, cycles, sigq,
                   exit_code, notifyEnabled, child_notify, environ, notifyCalls,
                   sent, delivered, forwarded, kills, waited, nwait, exitPhase,
                   bothSeen>>
    /\ UNCHANGED lazyVars

\* --- main(): wait_for_startup
\* lines 154-155: the sleep ran to its end (None).
SleepElapsed ==
    /\ pc = "sleep"
    /\ sleep_time = 0
    /\ pc' = "spawn_check"
    /\ UNCHANGED <<sleep_time, child, check_child, unreaped, nspawn, cycles,
                   sigq, exit_code, notifyEnabled, child_notify, environ,
                   notifyCalls, sent, delivered, forwarded, kills, waited,
                   nwait, exitPhase, bothSeen>>
    /\ UNCHANGED lazyVars

\* lines 156-164: spawn the probe; Ok leaves the inner loop for 'checkLoop,
\* Err continues 'waitLoop (line 152 sets sleep_time again).
SpawnCheck(ok) ==
    /\ pc = "spawn_check"
    /\ nspawn < MaxAttempts
    /\ nspawn' = nspawn + 1
    /\ IF ok
       THEN /\ check_child' = [pid |-> ProbePid(nspawn + 1), state |-> "running",
                               success |-> FALSE, term |-> FALSE,
                               env |-> remove_var(environ)]
            /\ unreaped' = unreaped \cup {ProbePid(nspawn + 1)}
            /\ pc' = "racing"
            /\ UNCHANGED <<sleep_time, cycles>>
       ELSE /\ pc' = "sleep"
            /\ sleep_time' = SleepTicks
            /\ cycles' = Counted(cycles)
            /\ UNCHANGED <<check_child, unreaped>>
    /\ UNCHANGED <<child, sigq, exit_code, notifyEnabled, child_notify, environ,
                   notifyCalls, sent, delivered, forwarded, kills, waited,
                   nwait, exitPhase, bothSeen>>
    /\ UNCHANGED lazyVars

\* Mutant of Forward: the signal is sent to the child twice.
Forward_Twice(sig) ==
    /\ forwarded' = Append(Append(forwarded, sig), sig)
    /\ kills' = kills \cup {<<ChildPid, sig>>}

\* Mutant of Forward: the signal is sent to the probe as well.
Forward_AlsoProbe(sig) ==
    /\ forwarded' = Append(forwarded, sig)
    /\ kills' = kills \cup {<<ChildPid, sig>>, <<check_child.pid, sig>>}

\* let _ = kill(child pid, sig.signal): lines 182-185, 225-228, 250-253.
Forward(sig) ==
    /\ forwarded' = Append(forwarded, sig)
    /\ kills' = kills \cup {<<ChildPid, sig>>}

\* child.wait() ... unwrap_or(1) on the child's exit event, and the exit
\* code on its way to process::exit: lines 173-178, 202-206, 242-246.
ReapChild(w, phase) ==
    /\ child' = [child EXCEPT !.state = "reaped"]
    /\ waited' = w
    /\ nwait' = nwait + 1
    /\ exit_code' = ExitCodeOf(w)
    /\ exitPhase' = phase

\* lines 167-188: one event of signals.pending().
PendingSignal ==
    /\ pc = "pending"
    /\ sigq # <<>>
    /\ sigq' = Tail(sigq)
    /\ LET sig == Head(sigq) IN
       IF sig.sig = SIGCHLD
       THEN IF sig.pid = ChildPid
            THEN /\ \E w \in WaitOutcomes(child.status) : ReapChild(w, "Sleeping")
                 /\ pc' = "exited"
                 /\ UNCHANGED <<forwarded, kills>>
            ELSE UNCHANGED <<pc, child, waited, nwait, exit_code, exitPhase,
                             forwarded, kills>>
       ELSE /\ Forward(sig.sig)
            /\ UNCHANGED <<pc, child, waited, nwait, exit_code, exitPhase>>
    /\ UNCHANGED <<sleep_time, check_child, unreaped, nspawn, cycles,
                   notifyEnabled, child_notify, environ, notifyCalls, sent,
                   delivered, bothSeen>>
    /\ UNCHANGED lazyVars

\* line 190: sleep_time = remaining; back to line 154.
PendingDone ==
    /\ pc = "pending"
    /\ sigq = <<>>
    /\ pc' = "sleep"
    /\ UNCHANGED <<sleep_time, child, check_child, unreaped, nspawn, cycles,
                   sigq, exit_code, notifyEnabled, child_notify, environ,
                   notifyCalls, sent, delivered, forwarded, kills, waited,
                   nwait, exitPhase, bothSeen>>
    /\ UNCHANGED lazyVars

\* Mutant of RacingChildExit: returns without a signal to the probe.
RacingChildExit_NoTerm ==
    /\ \E w \in WaitOutcomes(child.status) : ReapChild(w, "Racing")
    /\ pc' = "wait_check"
    /\ UNCHANGED <<sleep_time, cycles, forwarded, kills, check_child, unreaped>>

\* lines 201-210: the child's exit event in 'checkLoop: reap the child and
\* send SIGTERM to the probe.
RacingChildExit ==
    /\ \E w \in WaitOutcomes(child.status) : ReapChild(w, "Racing")
    /\ check_child' = [check_child EXCEPT !.term = TRUE]
    /\ kills' = kills \cup {<<check_child.pid, SIGTERM>>}
    /\ pc' = "wait_check"
    /\ UNCHANGED <<sleep_time, cycles, forwarded, unreaped>>

\* Mutant of RacingProbeExit: a failed probe is followed by the next one
\* without the delay.
RacingProbeExit_NoDelay ==
    /\ check_child' = [check_child EXCEPT !.state = "reaped"]
    /\ unreaped' = unreaped \ {check_child.pid}
    /\ IF check_child.success
       THEN /\ pc' = "notify"
            /\ UNCHANGED <<sleep_time, cycles>>
       ELSE /\ pc' = "sleep"
            /\ sleep_time' = 0
            /\ cycles' = Counted(cycles)
    /\ UNCHANGED <<child, waited, nwait, exit_code, exitPhase, forwarded,
                   kills>>

\* Mutant of RacingProbeExit: a probe that exited without success is left
\* unwaited.
RacingProbeExit_NoReap ==
    /\ IF check_child.success
       THEN /\ check_child' = [check_child EXCEPT !.state = "reaped"]
            /\ unreaped' = unreaped \ {check_child.pid}
            /\ pc' = "notify"
            /\ UNCHANGED <<sleep_time, cycles>>
       ELSE /\ pc' = "sleep"
            /\ sleep_time' = SleepTicks
            /\ cycles' = Counted(cycles)
            /\ UNCHANGED <<check_child, unreaped>>
    /\ UNCHANGED <<child, waited, nwait, exit_code, exitPhase, forwarded,
                   kills>>

\* Mutant of RacingProbeExit: every probe exit breaks 'checkLoop.
RacingProbeExit_NeverOk ==
    /\ check_child' = [check_child EXCEPT !.state = "reaped"]
    /\ unreaped' = unreaped \ {check_child.pid}
    /\ pc' = "sleep"
    /\ sleep_time' = SleepTicks
    /\ cycles' = Counted(cycles)
    /\ UNCHANGED <<child, waited, nwait, exit_code, exitPhase, forwarded, kills>>

\* lines 213-220: the probe's exit event: reap it; success returns Ok(()),
\* anything else breaks 'checkLoop and starts 'waitLoop again.
RacingProbeExit ==
    /\ check_child' = [check_child EXCEPT !.state = "reaped"]
    /\ unreaped' = unreaped \ {check_child.pid}
    /\ IF check_child.success
       THEN /\ pc' = "notify"
            /\ UNCHANGED <<sleep_time, cycles>>
       ELSE /\ pc' = "sleep"
            /\ sleep_time' = SleepTicks
            /\ cycles' = Counted(cycles)
    /\ UNCHANGED <<child, waited, nwait, exit_code, exitPhase, forwarded,
                   kills>>

\* lines 197-231: one event of signals.wait().
RacingSignal ==
    /\ pc = "racing"
    /\ sigq # <<>>
    /\ sigq' = Tail(sigq)
    /\ LET sig == Head(sigq) IN
       IF sig.sig = SIGCHLD
       THEN IF sig.pid # NoPid /\ sig.pid = ChildPid
            THEN RacingChildExit
            ELSE IF sig.pid # NoPid /\ sig.pid = check_child.pid
            THEN RacingProbeExit
            ELSE UNCHANGED <<pc, sleep_time, cycles, child, check_child,
                             unreaped, waited, nwait, exit_code, exitPhase,
                             forwarded, kills>>
       ELSE /\ Forward(sig.sig)
            /\ UNCHANGED <<pc, sleep_time, cycles, child, check_child, unreaped,
                           waited, nwait, exit_code, exitPhase>>
    /\ UNCHANGED <<nspawn, notifyEnabled, child_notify, environ,
                   notifyCalls, sent, delivered, bothSeen>>
    /\ UNCHANGED lazyVars

\* lines 211-212: let _ = check_child.wait(); return Err(exit_code);
\* and line 135: process::exit(exit_code).
WaitCheck ==
    /\ pc = "wait_check"
    /\ check_child.state = "zombie"
    /\ check_child' = [check_child EXCEPT !.state = "reaped"]
    /\ unreaped' = unreaped \ {check_child.pid}
    /\ pc' = "exited"
    /\ UNCHANGED <<sleep_time, child, nspawn, cycles, sigq, exit_code,
                   notifyEnabled, child_notify, environ, notifyCalls, sent,
                   delivered, forwarded, kills, waited, nwait, exitPhase,
                   bothSeen>>
    /\ UNCHANGED lazyVars

\* --- main(): the readiness message
\* main.rs lines 137-138 and sd_notify.rs lines 53-55: notify("READY=1")
\* enters get_or_create(|| UnixDatagram::bind(&self.socket_path)); bound is
\* what the bind returns.
Notify ==
    /\ pc = "notify"
    /\ IF notifyEnabled
       THEN /\ notifyCalls' = notifyCalls + 1
            /\ \E bound \in {"ok", "err"} : CallGetOrCreate(MainThread, bound)
            /\ pc' = "in_notify"
       ELSE /\ pc' = "steady"
            /\ UNCHANGED notifyCalls
            /\ UNCHANGED lazyVars
    /\ UNCHANGED <<sleep_time, child, check_child, unreaped, nspawn, cycles,
                   sigq, exit_code, notifyEnabled, child_notify, environ, sent,
                   delivered, forwarded, kills, waited, nwait, exitPhase,
                   bothSeen>>

\* The statements of get_or_create run by main().
NotifyStep(A) ==
    /\ pc = "in_notify"
    /\ A
    /\ UNCHANGED supVars

\* The socket has a peer address: only connect() sets one, and the source
\* calls bind() alone (sd_notify.rs line 55).
Connected(socket) == FALSE

\* sd_notify.rs line 56: socket.send(buf), which sends to the socket's peer
\* and is an error on a socket that has none; line 55's `?` returns a bind
\* error. main.rs line 138 drops the Result either way.
NotifySend ==
    /\ pc = "in_notify"
    /\ lpc[MainThread] = "idle"
    /\ ret[MainThread].tag \in {"Ok", "Err"}
    /\ sent' = IF ret[MainThread].tag = "Ok" /\ Connected(ret[MainThread].val)
               THEN sent + 1 ELSE sent
    /\ pc' = "steady"
    /\ UNCHANGED <<sleep_time, child, check_child, unreaped, nspawn, cycles,
                   sigq, exit_code, notifyEnabled, child_notify, environ,
                   notifyCalls, delivered, forwarded, kills, waited, nwait,
                   exitPhase, bothSeen>>
    /\ UNCHANGED lazyVars

\* Mutant of SteadySignal: the relay goes on after the child's exit.
SteadySignal_NoReturn ==
    /\ pc = "steady"
    /\ sigq # <<>>
    /\ sigq' = Tail(sigq)
    /\ LET sig == Head(sigq) IN
       IF sig.sig = SIGCHLD
       THEN IF sig.pid = ChildPid
            THEN /\ \E w \in WaitOutcomes(child.status) : ReapChild(w, "Steady")
                 /\ UNCHANGED pc
                 /\ UNCHANGED <<forwarded, kills>>
            ELSE UNCHANGED <<pc, child, waited, nwait, exit_code, exitPhase,
                             forwarded, kills>>
       ELSE /\ Forward(sig.sig)
            /\ UNCHANGED <<pc, child, waited, nwait, exit_code, exitPhase>>
    /\ UNCHANGED <<sleep_time, check_child, unreaped, nspawn, cycles,
                   notifyEnabled, child_notify, environ, notifyCalls, sent,
                   delivered, bothSeen>>
    /\ UNCHANGED lazyVars

\* --- main(): propagate_signals
\* lines 238-256: one event of signals.wait(); the child's exit returns its
\* code to process::exit (line 140).
SteadySignal ==
    /\ pc = "steady"
    /\ sigq # <<>>
    /\ sigq' = Tail(sigq)
    /\ LET sig == Head(sigq) IN
       IF sig.sig = SIGCHLD
       THEN IF sig.pid = ChildPid
            THEN /\ \E w \in WaitOutcomes(child.status) : ReapChild(w, "Steady")
                 /\ pc' = "exited"
                 /\ UNCHANGED <<forwarded, kills>>
            ELSE UNCHANGED <<pc, child, waited, nwait, exit_code, exitPhase,
                             forwarded, kills>>
       ELSE /\ Forward(sig.sig)
            /\ UNCHANGED <<pc, child, waited, nwait, exit_code, exitPhase>>
    /\ UNCHANGED <<sleep_time, check_child, unreaped, nspawn, cycles,
                   notifyEnabled, child_notify, environ, notifyCalls, sent,
                   delivered, bothSeen>>
    /\ UNCHANGED lazyVars

Next ==
    \/ TakeNotify
    \/ SpawnChild
    \/ \E st \in ExitStatuses : ChildExit(st)
    \/ \E ok \in BOOLEAN : ProbeExit(ok)
    \/ \E kind \in RelayKinds \cup {SIGCHLD} : Signal(kind)
    \/ Tick
    \/ SleepElapsed
    \/ \E ok \in BOOLEAN : SpawnCheck(ok)
    \/ PendingSignal
    \/ PendingDone
    \/ RacingSignal
    \/ WaitCheck
    \/ Notify
    \/ NotifyStep(GocLoad(MainThread))
    \/ NotifyStep(GocLock(MainThread))
    \/ NotifyStep(GocRecheck(MainThread))
    \/ NotifyStep(GocCreateReturn(MainThread))
    \/ NotifyStep(GocWrite(MainThread))
    \/ NotifyStep(GocStore(MainThread))
    \/ NotifyStep(GocUnlock(MainThread))
    \/ NotifyStep(GocExtract(MainThread))
    \/ NotifySend
    \/ SteadySignal

\* main() up to line 132: the container is new, the child is spawned, and
\* `notify` is Some or None as NOTIFY_SOCKET was set or not.
Init ==
    /\ LazyInit
    /\ \E flag \in BOOLEAN, env \in EnvValues : SupInit(flag, env)

Spec == Init /\ [][Next]_vars

\* lines 156-164 once MaxAttempts probes have been counted: the loop goes on
\* spawning, nspawn stays, and the new probe has the pid of the last one,
\* which was reaped.
SpawnCheckMore(ok) ==
    /\ pc = "spawn_check"
    /\ nspawn = MaxAttempts
    /\ IF ok
       THEN /\ check_child' = [pid |-> ProbePid(nspawn), state |-> "running",
                               success |-> FALSE, term |-> FALSE,
                               env |-> remove_var(environ)]
            /\ unreaped' = unreaped \cup {ProbePid(nspawn)}
            /\ pc' = "racing"
            /\ UNCHANGED sleep_time
       ELSE /\ pc' = "sleep"
            /\ sleep_time' = SleepTicks
            /\ UNCHANGED <<check_child, unreaped>>
    /\ UNCHANGED <<child, nspawn, cycles, sigq, exit_code, notifyEnabled,
                   child_notify, environ, notifyCalls, sent, delivered,
                   forwarded, kills, waited, nwait, exitPhase, bothSeen>>
    /\ UNCHANGED lazyVars

\* The supervisor with no bound on its probe attempts.
FairNext ==
    \/ Next
    \/ \E ok \in BOOLEAN : SpawnCheckMore(ok)

\* A step of main(), or time passing in its sleep.
MainStep ==
    \/ TakeNotify
    \/ SpawnChild
    \/ Tick
    \/ SleepElapsed
    \/ \E ok \in BOOLEAN : SpawnCheck(ok)
    \/ \E ok \in BOOLEAN : SpawnCheckMore(ok)
    \/ PendingSignal
    \/ PendingDone
    \/ RacingSignal
    \/ WaitCheck
    \/ Notify
    \/ NotifyStep(GocLoad(MainThread))
    \/ NotifyStep(GocLock(MainThread))
    \/ NotifyStep(GocRecheck(MainThread))
    \/ NotifyStep(GocCreateReturn(MainThread))
    \/ NotifyStep(GocWrite(MainThread))
    \/ NotifyStep(GocStore(MainThread))
    \/ NotifyStep(GocUnlock(MainThread))
    \/ NotifyStep(GocExtract(MainThread))
    \/ NotifySend
    \/ SteadySignal

\* FairSpec: main() keeps running, time passes in its sleep, and a probe
\* that runs exits (by itself or on SIGTERM). Signals are delivered in the
\* step that sends them. Nothing is assumed of the child or of the spawn.
FairSpec ==
    /\ Init
    /\ [][FairNext]_vars
    /\ WF_vars(MainStep)
    /\ WF_vars(\E ok \in BOOLEAN : ProbeExit(ok))

\* The supervisor with a child that does not exit.
AliveNext ==
    \/ TakeNotify
    \/ SpawnChild
    \/ \E ok \in BOOLEAN : ProbeExit(ok)
    \/ \E kind \in RelayKinds \cup {SIGCHLD} : Signal(kind)
    \/ Tick
    \/ SleepElapsed
    \/ \E ok \in BOOLEAN : SpawnCheck(ok)
    \/ \E ok \in BOOLEAN : SpawnCheckMore(ok)
    \/ PendingSignal
    \/ PendingDone
    \/ RacingSignal
    \/ Notify
    \/ NotifyStep(GocLoad(MainThread))
    \/ NotifyStep(GocLock(MainThread))
    \/ NotifyStep(GocRecheck(MainThread))
    \/ NotifyStep(GocCreateReturn(MainThread))
    \/ NotifyStep(GocWrite(MainThread))
    \/ NotifyStep(GocStore(MainThread))
    \/ NotifyStep(GocUnlock(MainThread))
    \/ NotifyStep(GocExtract(MainThread))
    \/ NotifySend
    \/ SteadySignal

\* The probe is spawned.
SpawnOk == SpawnCheck(TRUE) \/ SpawnCheckMore(TRUE)

\* AliveSpec: the child does not exit, main() keeps running and time passes
\* in its sleep; the probe, tried again and again, is spawned at some
\* attempt, and a probe that runs again and again exits with success at
\* some run. Signals are delivered in the step that sends them.
AliveSpec ==
    /\ Init
    /\ [][AliveNext]_vars
    /\ WF_vars(MainStep)
    /\ SF_vars(SpawnOk)
    /\ SF_vars(ProbeExit(TRUE))

\* A step of a thread of LazySpec; the supervisor does not run.
LazyStep(A) ==
    /\ A
    /\ UNCHANGED supVars

\* A thread starts a call, or runs one statement of its call.
LazyNext ==
    \E t \in Threads :
        \/ \E r \in {"ok", "err"} :
              LazyStep(calls[t] < MaxCalls /\ CallGetOrCreate(t, r))
        \/ LazyStep(calls[t] < MaxCalls /\ CallGet(t))
        \/ LazyStep(GocLoad(t))
        \/ LazyStep(GocLock(t))
        \/ LazyStep(GocRecheck(t))
        \/ LazyStep(GocCreateReturn(t))
        \/ LazyStep(GocWrite(t))
        \/ LazyStep(GocStore(t))
        \/ LazyStep(GocUnlock(t))
        \/ LazyStep(GocExtract(t))
        \/ LazyStep(GetLoad(t))
        \/ LazyStep(GetFast(t))
        \/ LazyStep(GetLock(t))
        \/ LazyStep(GetSlow(t))

\* A new container shared by the threads; no supervisor runs.
LazyOnlyInit ==
    /\ LazyInit
    /\ SupInit(FALSE, Unset)

LazySpec == LazyOnlyInit /\ [][LazyNext]_vars

\* The calls a thread makes in FairLazySpec.
MaxFairCalls == 1

\* As LazyNext, with MaxFairCalls calls a thread.
FairLazyNext ==
    \E t \in Threads :
        \/ \E r \in {"ok", "err"} :
              LazyStep(calls[t] < MaxFairCalls /\ CallGetOrCreate(t, r))
        \/ LazyStep(calls[t] < MaxFairCalls /\ CallGet(t))
        \/ LazyStep(GocLoad(t))
        \/ LazyStep(GocLock(t))
        \/ LazyStep(GocRecheck(t))
        \/ LazyStep(GocCreateReturn(t))
        \/ LazyStep(GocWrite(t))
        \/ LazyStep(GocStore(t))
        \/ LazyStep(GocUnlock(t))
        \/ LazyStep(GocExtract(t))
        \/ LazyStep(GetLoad(t))
        \/ LazyStep(GetFast(t))
        \/ LazyStep(GetLock(t))
        \/ LazyStep(GetSlow(t))

\* One statement of the call thread t is in.
ThreadStep(t) ==
    \/ LazyStep(GocLoad(t))
    \/ LazyStep(GocLock(t))
    \/ LazyStep(GocRecheck(t))
    \/ LazyStep(GocCreateReturn(t))
    \/ LazyStep(GocWrite(t))
    \/ LazyStep(GocStore(t))
    \/ LazyStep(GocUnlock(t))
    \/ LazyStep(GocExtract(t))
    \/ LazyStep(GetLoad(t))
    \/ LazyStep(GetFast(t))
    \/ LazyStep(GetLock(t))
    \/ LazyStep(GetSlow(t))

\* FairLazySpec: every thread that can run a statement of its call does so
\* in the end; the creation function returns (GocCreateReturn) and makes no
\* call on the container.
FairLazySpec ==
    /\ LazyOnlyInit
    /\ [][FairLazyNext]_vars
    /\ \A t \in Threads : WF_vars(ThreadStep(t))

\* ------------------------------------------------------------- claims
\* C1  Permanence: once the initialized flag is true it stays true, the
\* value cell is never written again, and no creation function is invoked
\* again, whatever calls are still running or start later.
C1_Permanence ==
    [][initialized => (initialized' /\ value' = value /\ nCreate' = nCreate)]_vars

\* The container is initialized while a caller that saw it uninitialized on
\* line 50 holds the lock and is past the second look of line 52.
C1_Witness ==
    /\ initialized
    /\ \E t \in Threads : lpc[t] = "goc_unlock" /\ lock = t /\ invoked[t] = 0

\* C2  Mutual exclusion: at no instant are two creation functions running,
\* retries after failed attempts included.
C2_MutualExclusion ==
    Cardinality({t \in AllThreads : lpc[t] = "goc_f"}) <= 1

\* A creation function runs after an earlier one failed, while another
\* caller waits for the lock.
C2_Witness ==
    /\ nFailed > 0
    /\ \E t, u \in Threads : lpc[t] = "goc_f" /\ lpc[u] = "goc_lock"

\* C3  Failure isolation: a call whose creation function fails has invoked
\* it exactly once, returns that function's own error, and leaves the
\* container as new (flag false, cell None, lock free); no call invokes its
\* function twice; a call that finds the container uninitialized under the
\* lock invokes its own function whatever failed before; and a call whose
\* own function succeeded returns that function's value, which is the cell's.
C3_FailureIsolation ==
    [][\A t \in AllThreads :
        /\ (ret[t].tag # "Err" /\ ret'[t].tag = "Err") =>
              /\ invoked'[t] = 1
              /\ ret'[t].val = <<Produced(t, calls[t])>>
              /\ ~initialized' /\ value' = <<>> /\ lock' = NoThread
        /\ invoked'[t] <= 1
        /\ (lpc[t] = "goc_recheck" /\ lpc'[t] # "goc_recheck" /\ ~initialized) =>
              /\ lpc'[t] = "goc_f"
              /\ invoked'[t] = 1
              /\ nCreate' = nCreate + 1
        /\ (ret'[t].tag = "Ok" /\ invoked'[t] = 1) =>
              /\ ret'[t].val = <<Produced(t, calls'[t])>>
              /\ value' = ret'[t].val
        /\ ret'[t].tag = "Some" => (ret'[t].val # <<>> /\ ret'[t].val = value')
    ]_vars

\* One caller's creation failed, and a get() that came after a later,
\* successful creation returned Some of that creation's value.
C3_Witness ==
    \E t, u \in Threads :
        /\ ret[t].tag = "Err"
        /\ ret[u].tag = "Some"
        /\ \E k \in 1..MaxCalls : ret[u].val = <<Produced(u, k)>>

\* C4  Single result: creation functions that ran and did not fail number
\* at most one, so when none fails exactly one runs in total; every Ok
\* result is the cell's value, and it is the caller's own product exactly
\* when the caller's own function was the one that ran.
C4_SingleResult ==
    /\ nCreate <= nFailed + 1
    /\ \A t \in AllThreads :
          ret[t].tag = "Ok" =>
              /\ nCreate = nFailed + 1
              /\ initialized
              /\ ret[t].val = value
              /\ (ret[t].val = <<Produced(t, calls[t])>>) <=> (invoked[t] = 1)

\* Two first calls, both with functions that would succeed, both returned
\* Ok after a single creation: one ran its function, the other did not.
C4_Witness ==
    \E t, u \in Threads :
        /\ t # u
        /\ calls[t] = 1 /\ calls[u] = 1
        /\ fres[t] = "ok" /\ fres[u] = "ok"
        /\ ret[t].tag = "Ok" /\ ret[u].tag = "Ok"
        /\ invoked[t] = 1 /\ invoked[u] = 0
        /\ nCreate = 1 /\ nFailed = 0

\* C5  get() does not race with a first creation: get() reads the cell
\* (lines 72, 75) only when no caller is between invoking its creation
\* function and publishing the flag; a get() that started during a creation
\* returns only after that creation has finished, and returns Some when it
\* succeeded (None only when it failed); get() invokes no creation function.
GetPcs == {"get_load", "get_fast", "get_lock", "get_slow"}
C5_GetNoRace ==
    \A t \in AllThreads :
        /\ lpc[t] \in {"get_fast", "get_slow"} =>
              \A u \in AllThreads \ {t} : ~Creating(u)
        /\ (ret[t].tag \in {"Some", "None"} /\ inflight[t] # NoCreation) =>
              LET c == inflight[t] IN
              /\ ~(Creating(c[1]) /\ calls[c[1]] = c[2])
              /\ value = <<c>> => ret[t] = Result("Some", <<c>>)
        /\ (lpc[t] \in GetPcs \/ ret[t].tag \in {"Some", "None"}) => invoked[t] = 0

\* A get() that started while a creation was running has returned Some of
\* that creation's value.
C5_Witness ==
    \E t \in Threads :
        /\ inflight[t] # NoCreation
        /\ ret[t] = Result("Some", <<inflight[t]>>)

\* C6  Exactly one readiness message: once the steady-state relay runs
\* with a notification channel configured, exactly one READY=1 datagram
\* has been sent on it.
C6_ExactlyOneReady ==
    (notifyEnabled /\ (pc = "steady" \/ exitPhase = "Steady")) => sent = 1

\* C7  Child dies during probe: when the child's exit event is taken in
\* 'checkLoop the child is reaped, the exit code is the child's (1 when it
\* has none), SIGTERM has been sent to the probe in flight, the process
\* exits only after that probe is reaped, and notify is never called.
C7_ChildDiesDuringProbe ==
    exitPhase = "Racing" =>
        /\ pc \in {"wait_check", "exited"}
        /\ child.state = "reaped"
        /\ waited \in ExitCodes => exit_code = waited
        /\ waited \notin ExitCodes => exit_code = 1
        /\ check_child.term
        /\ pc = "exited" => check_child.state = "reaped"
        /\ notifyCalls = 0 /\ sent = 0 /\ calls[MainThread] = 0

\* The child exited with code 3 while a probe that exited with success was
\* in flight; the supervisor has exited with 3.
C7_Witness ==
    /\ pc = "exited"
    /\ exitPhase = "Racing"
    /\ exit_code = 3
    /\ check_child.success
    /\ check_child.state = "reaped"

\* C8  Child exit wins: when a Racing batch has held both the child's exit
\* event and the exit event of a probe that succeeded, the startup ends in
\* ChildExited: Ready is not reached and notify is not called.
C8_ChildExitWins ==
    bothSeen =>
        /\ pc \notin {"notify", "in_notify", "steady"}
        /\ exitPhase # "Steady"
        /\ notifyCalls = 0

\* C9  Exit code propagation: the process has an exit code exactly when the
\* child's exit was handled (in Sleeping, Racing or steady state); the code
\* is the child's own when child.wait() gave one, and 1 when the child was
\* killed by a signal or the wait failed; the process exits with nothing
\* else.
C9_ExitCodePropagation ==
    /\ (exit_code # NoExit) <=> (exitPhase # "none")
    /\ pc = "exited" => exitPhase # "none"
    /\ exitPhase # "none" =>
          /\ child.state = "reaped"
          /\ waited \in WaitOutcomes(child.status)
          /\ waited \in ExitCodes => exit_code = waited
          /\ waited \in {Signaled, WaitErr} => exit_code = 1

\* The child was killed by a signal in steady state, after probes failed and
\* signals were forwarded: the supervisor has exited with 1.
C9_Witness ==
    /\ pc = "exited"
    /\ exitPhase = "Steady"
    /\ waited = Signaled
    /\ exit_code = 1
    /\ nspawn > 1
    /\ forwarded # <<>>

\* The relayed kinds of a sequence of kinds, and of a queue of events.
RelayOnly(kinds) == SelectSeq(kinds, LAMBDA k : k # SIGCHLD)
KindsOf(q) == [i \in 1..Len(q) |-> q[i].sig]

\* C10 as claimed: every signal of a relayed kind delivered before the
\* supervisor terminated has been forwarded to the child.
C10_EveryDeliveredForwarded ==
    pc = "exited" => forwarded = RelayOnly(delivered)

\* C10 as amended: the signals forwarded to the child, followed by those
\* still pending, are the signals delivered, kind by kind and in order (none
\* dropped, none sent twice); and the step that forwards one takes it from
\* the head of the queue and changes nothing else: not the place in main(),
\* the remaining delay, the processes or the exit code.
C10_ForwardedOnce ==
    /\ [](forwarded \o RelayOnly(KindsOf(sigq)) = RelayOnly(delivered))
    /\ [][forwarded' # forwarded =>
            /\ sigq # <<>>
            /\ Head(sigq).sig # SIGCHLD
            /\ forwarded' = Append(forwarded, Head(sigq).sig)
            /\ sigq' = Tail(sigq)
            /\ pc \in {"pending", "racing", "steady"}
            /\ UNCHANGED <<pc, sleep_time, child, check_child, unreaped, nspawn,
                           cycles, exit_code, notifyCalls, sent>>
         ]_vars

\* The relay runs after a failed and a successful probe, and both signals
\* delivered on the way have been forwarded to the child.
C10_Witness ==
    /\ pc = "steady"
    /\ nspawn = 2
    /\ Len(forwarded) = 2
    /\ forwarded = delivered

\* C11  Termination on child exit: once the child has exited the supervisor
\* eventually terminates, and it terminates only after the child's exit.
C11_TerminatesOnChildExit ==
    /\ [](pc = "exited" => child.state = "reaped")
    /\ (child.state \in {"zombie", "reaped"}) ~> (pc = "exited")

\* C12  Readiness-address inheritance: when NOTIFY_SOCKET is set at startup
\* the child is spawned with it iff --child-notify was given, and no probe
\* is spawned with it.
C12_Inheritance ==
    notifyEnabled =>
        /\ child.state # "none" => (child.env # Unset <=> child_notify)
        /\ check_child.state # "none" => check_child.env = Unset

\* A step in which a health-check attempt fails: the probe is not spawned, or
\* the exit event of a probe that exited without success is taken.
FailedAttempt ==
    \/ /\ pc = "spawn_check"
       /\ pc' # pc
       /\ check_child'.state # "running"
    \/ /\ pc = "racing"
       /\ check_child.state = "zombie"
       /\ ~check_child.success
       /\ check_child'.state = "reaped"

\* The startup phase has ended with Ok(()).
Ready == pc \in {"notify", "in_notify", "steady"} \/ exitPhase = "Steady"

\* C13  Probe retry: a failed attempt (probe not spawned, or exited without
\* success) leads back to the sleep with the full delay, with no exit and
\* no readiness message; when Ready is reached after n failed attempts,
\* exactly n such cycles have been made.
C13_ProbeRetry ==
    /\ [](Ready => (check_child.success /\ nspawn = cycles + 1))
    /\ [][FailedAttempt =>
            /\ pc' = "sleep"
            /\ sleep_time' = SleepTicks
            /\ cycles' = Counted(cycles)
            /\ UNCHANGED <<exit_code, notifyCalls, sent, child>>]_vars

C13_Witness == pc = "notify" /\ cycles = 1 /\ check_child.success

\* C14  Batch ordering: a signal of a batch is forwarded to the child only
\* when that batch does not hold the child's exit event (the child's exit is
\* handled first), in the sleep, in the race and in the relay.
C14_BatchOrdering ==
    [][forwarded' # forwarded =>
          \A i \in 1..Len(sigq) : sigq[i] # Event(SIGCHLD, ChildPid)]_vars

\* C15  Relay targets: no kill() of the supervisor sends SIGCHLD; a kill()
\* to the child sends a kind that was delivered to the supervisor; the only
\* other kill() is the SIGTERM to the probe in flight, made in the step
\* that handles the child's exit in the race.
C15_RelayTargets ==
    /\ [](\A k \in kills :
            /\ k[2] # SIGCHLD
            /\ \/ k[1] = ChildPid /\ (\E i \in 1..Len(delivered) : delivered[i] = k[2])
               \/ /\ k[1] = check_child.pid
                  /\ k[2] = SIGTERM
                  /\ exitPhase = "Racing")
    /\ [][(\E k \in kills' \ kills : k[1] # ChildPid) =>
            /\ pc = "racing"
            /\ check_child.state \in {"running", "zombie"}
            /\ child.state = "zombie" /\ child'.state = "reaped"]_vars

C15_Witness ==
    /\ <<check_child.pid, SIGTERM>> \in kills
    /\ \E k \in kills : k[1] = ChildPid

\* The startup phase is over: Ok(()) or Err(exit_code) was returned.
StartupEnded == Ready \/ pc = "exited"

\* C16  Probe lifetime: at most one probe is spawned and not yet waited on;
\* a probe is spawned only when none is unreaped; when the startup phase has
\* ended none is left; no probe is spawned in the relay.
C16_ProbeLifetime ==
    /\ [](Cardinality(unreaped) <= 1)
    /\ [](StartupEnded => unreaped = {})
    /\ [][unreaped' \ unreaped # {} =>
            /\ unreaped = {}
            /\ ~Ready /\ ~Ready']_vars

C16_Witness == nspawn = 2 /\ unreaped = {ProbePid(2)}

\* C17  Child reaped exactly once: child.wait() is called at most once, once
\* in every run that has terminated, in the step that takes the child's own
\* exit event; after it no signal is sent to the child's pid and there is no
\* second wait.
C17_ReapedOnce ==
    /\ [](nwait <= 1)
    /\ [](pc = "exited" => nwait = 1)
    /\ [][nwait' # nwait =>
            /\ sigq # <<>>
            /\ Head(sigq) = Event(SIGCHLD, ChildPid)
            /\ child.state = "zombie"]_vars
    /\ [][child.state = "reaped" =>
            /\ UNCHANGED <<forwarded, nwait, child>>
            /\ \A k \in kills' \ kills : k[1] # ChildPid]_vars

C17_Witness ==
    /\ pc = "exited"
    /\ nwait = 1
    /\ forwarded # <<>>
    /\ check_child.term

\* C18  Readiness is eventually reached: with a child that does not exit, a
\* fair scheduler and a probe that is in the end spawned and exits with
\* success, the startup phase reaches Ready, whatever signals, spawn
\* failures and non-success probe exits come before.
C18_EventuallyReady == <>Ready

C18_Witness == Ready /\ cycles > 0 /\ forwarded # <<>> /\ notifyCalls = 0

\* C19  LazyFailInit is deadlock-free: every call of get and get_or_create
\* that a thread has started returns, and a thread that has returned from
\* get_or_create, with Ok or with Err, does not hold the lock.
C19_EveryCallReturns ==
    /\ \A t \in Threads : (lpc[t] # "idle") ~> (lpc[t] = "idle")
    /\ [](\A t \in Threads : lpc[t] = "idle" => lock # t)

C19_Witness ==
    /\ \A t \in Threads : lpc[t] = "idle" /\ calls[t] = MaxFairCalls
    /\ nFailed > 0
    /\ nCreate > nFailed
    /\ lock = NoThread

\* C20  LazyFailInit flag/value consistency: the initialized flag is true
\* only when the value cell holds a value, and never goes back to false; so
\* the unwrap at the end of get_or_create never fails and the lock-free
\* branch of get never returns None.
C20_FlagValue ==
    /\ [](initialized => value # <<>>)
    /\ [](\A t \in Threads : ret[t].tag # "panic")
    /\ [][(initialized => initialized')
          /\ \A t \in Threads :
                (lpc[t] = "get_fast" /\ lpc'[t] = "idle") => ret'[t].tag = "Some"]_vars

C20_Witness ==
    /\ initialized
    /\ \E t \in Threads : lpc[t] = "get_fast"
    /\ \E t \in Threads : ret[t].tag = "Ok" /\ calls[t] = MaxCalls

=============================================================================
